---- MODULE Spec2Model ----
(***************************************************************************)
(* FilterRepeater and FilterMapper of filters/complex.py as a state        *)
(* machine.  One filter instance is built by its constructor; callers      *)
(* apply it to input values.  `apply` is followed statement by statement:  *)
(* the type check, the test of `_has_errors`, and one step per item the    *)
(* generator `iter` looks at.                                              *)
(*                                                                         *)
(* Python values are tagged tuples <<tag, payload>>:                       *)
(*   <<"none", "">>  None          <<"int", n>>  an int                    *)
(*   <<"str", s>>    a text (a key, or a key made text by unicodify_key)   *)
(*   <<"seq", s>>    a list        <<"map", s>>  a mapping, s the sequence *)
(*                                 of its <<key, value>> items in order    *)
(***************************************************************************)
EXTENDS Integers, Sequences, FiniteSets, TLC

\* ---- bounds of the model -------------------------------------------------
MaxLen == 2
ConcLen == 1

Callers == {1, 2}

\* ---- values --------------------------------------------------------------
None == <<"none", "">>
IntV(n) == <<"int", n>>
Str(s) == <<"str", s>>
List(s) == <<"seq", s>>
Dict(s) == <<"map", s>>
Root == <<"root", "">>

IsMapping(v) == v[1] = "map"
IsIterable(v) == v[1] \in {"map", "seq"}

Range(s) == {s[i] : i \in DOMAIN s}
SeqsUpTo(S, n) == UNION {[1..k -> S] : k \in 0..n}
Distinct(s) == \A i, j \in DOMAIN s : i # j => s[i] # s[j]

ItemKeys(items) == [i \in DOMAIN items |-> items[i][1]]
HasKey(items, k) == \E i \in DOMAIN items : items[i][1] = k
GetItem(items, k) == items[CHOOSE i \in DOMAIN items : items[i][1] = k][2]

\* OrderedDict(pairs): a later pair with a key already present replaces the
\* value and keeps the position of the first.
RECURSIVE OrderedDict(_)
OrderedDict(pairs) ==
    IF pairs = <<>> THEN <<>>
    ELSE LET n == Len(pairs)
             d == OrderedDict(SubSeq(pairs, 1, n - 1))
             p == pairs[n]
         IN  IF HasKey(d, p[1])
             THEN [i \in DOMAIN d |-> IF d[i][1] = p[1] THEN p ELSE d[i]]
             ELSE Append(d, p)

Digits == <<"0", "1", "2", "3", "4", "5", "6", "7", "8", "9">>
RECURSIVE IntStr(_)
IntStr(i) == IF i < 10 THEN Digits[i + 1]
             ELSE IntStr(i \div 10) \o Digits[(i % 10) + 1]

\* unicodify_key: None -> 'None'; text is kept; an int is rendered in
\* decimal; bytes that do not decode make Unicode() fail and give repr(key).
unicodify_key(key) ==
    IF key = None THEN Str("None")
    ELSE IF key[1] = "str" THEN Str(key[2])
    ELSE IF key[1] = "int" THEN Str(IntStr(key[2]))
    ELSE Str("b'" \o key[2] \o "'")

\* ---- filter chains (external collaborators) ------------------------------
\* "id"       the empty chain: the value is returned as it is
\* "required" fails on None with code 'empty'
\* "max1_inc" two filters in a row: the first fails on an int above 1 with
\*            code 'too_big', the second maps an int n to n + 1; None passes
Chains == {"id", "required", "max1_inc"}

ChainFails(chain, v) ==
    \/ chain = "required" /\ v = None
    \/ chain = "max1_inc" /\ v[1] = "int" /\ v[2] > 1

ChainCode(chain) == IF chain = "required" THEN "empty" ELSE "too_big"

ChainValue(chain, v) ==
    IF chain = "max1_inc" /\ v[1] = "int" THEN IntV(v[2] + 1) ELSE v

\* BaseFilter._invalid_value: records (reason, sub_key) in the caller's error
\* context, marks the filter as having errors, and returns None.
invalid_value(reason, sub_key) ==
    [value |-> None, errors |-> <<<<reason, sub_key>>>>, failed |-> TRUE]

\* BaseFilter._filter(value, filter_chain, sub_key): runs the chain on the
\* value; a failure is recorded under sub_key and gives None.
filter(v, chain, sub_key) ==
    IF ChainFails(chain, v)
    THEN invalid_value(ChainCode(chain), sub_key)
    ELSE [value |-> ChainValue(chain, v), errors |-> <<>>, failed |-> FALSE]

\* self._filter(value, Type(Iterable)) and self._filter(value, Type(Mapping))
filter_type(v, cls) ==
    IF (cls = "FilterMapper" /\ IsMapping(v)) \/ (cls = "FilterRepeater" /\ IsIterable(v))
    THEN [value |-> v, errors |-> <<>>, failed |-> FALSE]
    ELSE invalid_value("wrong_type", Root)

\* ---- constructors --------------------------------------------------------
NoKeys == <<"none", {}>>
KeySet(S) == <<"set", S>>
Bool(b) == <<"bool", b>>

\* FilterRepeater.__init__(filter_chain, restrict_keys)
FilterRepeater(filter_chain, restrict_keys) ==
    [cls |-> "FilterRepeater",
     filter_chain |-> filter_chain,
     restrict_keys |-> IF restrict_keys = None THEN NoKeys
                       ELSE KeySet(Range(restrict_keys[2])),
     filters |-> <<>>,
     allow_missing_keys |-> Bool(TRUE),
     allow_extra_keys |-> Bool(TRUE)]

\* bool(x) of a value that is not iterable
Truthy(arg) ==
    IF arg[1] = "bool" THEN arg[2]
    ELSE IF arg[1] = "int" THEN arg[2] # 0
    ELSE FALSE

\* set(x) if isinstance(x, Iterable) else bool(x)
KeyPolicy(arg) == IF arg[1] = "seq" THEN KeySet(Range(arg[2])) ELSE Bool(Truthy(arg))

\* FilterMapper.__init__(filter_map, allow_missing_keys, allow_extra_keys)
FilterMapper(filter_map, allow_missing_keys, allow_extra_keys) ==
    [cls |-> "FilterMapper",
     filter_chain |-> "id",
     restrict_keys |-> NoKeys,
     filters |-> OrderedDict(filter_map),
     allow_missing_keys |-> KeyPolicy(allow_missing_keys),
     allow_extra_keys |-> KeyPolicy(allow_extra_keys)]

\* ---- key policies --------------------------------------------------------
\* Mutant: the policy is tested for truth, so any non-empty set allows every key.
missing_key_allowed_Truthy(self, key) ==
    \/ self.allow_missing_keys = Bool(TRUE)
    \/ self.allow_missing_keys[1] = "set" /\ self.allow_missing_keys[2] # {}

\* FilterMapper._missing_key_allowed: True when the policy is True; a set is
\* asked for membership; `key in False` raises TypeError, which gives False.
missing_key_allowed(self, key) ==
    IF self.allow_missing_keys = Bool(TRUE) THEN TRUE
    ELSE IF self.allow_missing_keys[1] = "set" THEN key \in self.allow_missing_keys[2]
    ELSE FALSE

\* FilterMapper._extra_key_allowed
extra_key_allowed(self, key) ==
    IF self.allow_extra_keys = Bool(TRUE) THEN TRUE
    ELSE IF self.allow_extra_keys[1] = "set" THEN key \in self.allow_extra_keys[2]
    ELSE FALSE

\* Mutant: `not self.restrict_keys`, so an empty restriction admits every key.
key_admitted_Truthy(self, k) ==
    \/ self.restrict_keys = NoKeys
    \/ self.restrict_keys[2] = {}
    \/ k \in self.restrict_keys[2]

\* FilterRepeater.iter: (self.restrict_keys is None) or (k in self.restrict_keys)
key_admitted(self, k) ==
    \/ self.restrict_keys = NoKeys
    \/ k \in self.restrict_keys[2]

\* ---- one item of each loop of `iter` --------------------------------------
\* What one pass through a loop body does: the pairs or elements it yields,
\* the errors it records, whether it marks the filter as having errors, and
\* the chain applications (_apply_item calls) it makes.
Step(yield, r, calls) ==
    [yield |-> yield, errors |-> r.errors, failed |-> r.failed, calls |-> calls]

\* Mutant: the pair is yielded under the unicodified key.
repeater_mapping_item_TextKey(self, k, v) ==
    LET u_key == unicodify_key(k)
    IN  IF key_admitted(self, k)
        THEN LET r == filter(v, self.filter_chain, u_key)
             IN  Step(<<<<u_key, r.value>>>>, r, <<<<u_key, v>>>>)
        ELSE Step(<<>>, invalid_value("unexpected", u_key), <<>>)

\* FilterRepeater.iter, mapping branch: the body of `for k, v in iteritems(value)`
repeater_mapping_item(self, k, v) ==
    LET u_key == unicodify_key(k)
    IN  IF key_admitted(self, k)
        THEN LET r == filter(v, self.filter_chain, u_key)
             IN  Step(<<<<k, r.value>>>>, r, <<<<u_key, v>>>>)
        ELSE Step(<<>>, invalid_value("unexpected", u_key), <<>>)

\* Mutant: a rejected index yields nothing, as a rejected mapping key does.
repeater_sequence_item_Drop(self, i, v) ==
    LET u_key == unicodify_key(IntV(i))
    IN  IF key_admitted(self, IntV(i))
        THEN LET r == filter(v, self.filter_chain, u_key)
             IN  Step(<<r.value>>, r, <<<<u_key, v>>>>)
        ELSE Step(<<>>, invalid_value("unexpected", u_key), <<>>)

\* FilterRepeater.iter, sequence branch: the body of `for i, v in enumerate(value)`
repeater_sequence_item(self, i, v) ==
    LET u_key == unicodify_key(IntV(i))
    IN  IF key_admitted(self, IntV(i))
        THEN LET r == filter(v, self.filter_chain, u_key)
             IN  Step(<<r.value>>, r, <<<<u_key, v>>>>)
        ELSE LET r == invalid_value("unexpected", u_key)
             IN  Step(<<r.value>>, r, <<>>)

\* Mutant: a missing key that is not allowed yields nothing, as a rejected
\* extra key does.
mapper_filter_item_NoPlaceholder(self, items, key, filter_chain) ==
    IF HasKey(items, key)
    THEN LET r == filter(GetItem(items, key), filter_chain, key)
         IN  Step(<<<<key, r.value>>>>, r, <<<<key, GetItem(items, key)>>>>)
    ELSE IF missing_key_allowed(self, key)
    THEN LET r == filter(None, filter_chain, key)
         IN  Step(<<<<key, r.value>>>>, r, <<<<key, None>>>>)
    ELSE Step(<<>>, invalid_value("missing", key), <<>>)

\* Mutant: an allowed missing key yields None without its chain being run.
mapper_filter_item_SkipChain(self, items, key, filter_chain) ==
    IF HasKey(items, key)
    THEN LET r == filter(GetItem(items, key), filter_chain, key)
         IN  Step(<<<<key, r.value>>>>, r, <<<<key, GetItem(items, key)>>>>)
    ELSE IF missing_key_allowed(self, key)
    THEN Step(<<<<key, None>>>>, [errors |-> <<>>, failed |-> FALSE], <<>>)
    ELSE LET r == invalid_value("missing", key)
         IN  Step(<<<<key, r.value>>>>, r, <<>>)

\* FilterMapper.iter, first loop: the body of `for key, filter_chain in self._filters`
mapper_filter_item(self, items, key, filter_chain) ==
    IF HasKey(items, key)
    THEN LET r == filter(GetItem(items, key), filter_chain, key)
         IN  Step(<<<<key, r.value>>>>, r, <<<<key, GetItem(items, key)>>>>)
    ELSE IF missing_key_allowed(self, key)
    THEN LET r == filter(None, filter_chain, key)
         IN  Step(<<<<key, r.value>>>>, r, <<<<key, None>>>>)
    ELSE LET r == invalid_value("missing", key)
         IN  Step(<<<<key, r.value>>>>, r, <<>>)

\* Mutant: a rejected extra key yields a placeholder, as a missing key does.
mapper_extra_item_Placeholder(self, items, key) ==
    IF extra_key_allowed(self, key)
    THEN Step(<<<<key, GetItem(items, key)>>>>, [errors |-> <<>>, failed |-> FALSE], <<>>)
    ELSE LET r == invalid_value("unexpected", unicodify_key(key))
         IN  Step(<<<<key, r.value>>>>, r, <<>>)

\* FilterMapper.iter, second loop: the body of `for key in set(value) - set(self._filters)`
mapper_extra_item(self, items, key) ==
    IF extra_key_allowed(self, key)
    THEN Step(<<<<key, GetItem(items, key)>>>>, [errors |-> <<>>, failed |-> FALSE], <<>>)
    ELSE Step(<<>>, invalid_value("unexpected", unicodify_key(key)), <<>>)

\* set(iterkeys(value)) - set(iterkeys(self._filters))
extra_keys(self, items) == Range(ItemKeys(items)) \ Range(ItemKeys(self.filters))

\* result_type(self.iter(value)): OrderedDict for a mapping (always, for a
\* FilterMapper), list otherwise.
result_type(self, v, yielded) ==
    IF self.cls = "FilterMapper" \/ IsMapping(v)
    THEN Dict(OrderedDict(yielded))
    ELSE List(yielded)

\* ---- apply() run from its first statement to its last ---------------------
NoStep == [yield |-> <<>>, errors |-> <<>>, failed |-> FALSE, calls |-> <<>>]
Join(a, b) ==
    [yield |-> a.yield \o b.yield, errors |-> a.errors \o b.errors,
     failed |-> a.failed \/ b.failed, calls |-> a.calls \o b.calls]
RECURSIVE JoinAll(_)
JoinAll(steps) ==
    IF steps = <<>> THEN NoStep ELSE Join(steps[1], JoinAll(Tail(steps)))

\* FilterRepeater.iter(value), consumed to its end
repeater_iter(self, v) ==
    IF v = None THEN NoStep
    ELSE IF IsMapping(v)
    THEN JoinAll([i \in DOMAIN v[2] |-> repeater_mapping_item(self, v[2][i][1], v[2][i][2])])
    ELSE JoinAll([i \in DOMAIN v[2] |-> repeater_sequence_item(self, i - 1, v[2][i])])

\* FilterMapper.iter(value), consumed to its end, the set of extra keys being
\* iterated in the given order
mapper_iter(self, v, order) ==
    IF v = None THEN NoStep
    ELSE JoinAll([i \in DOMAIN self.filters |->
                    mapper_filter_item(self, v[2], self.filters[i][1], self.filters[i][2])]
                 \o [i \in DOMAIN order |-> mapper_extra_item(self, v[2], order[i])])

\* FilterRepeater._apply and FilterMapper._apply, run by one caller alone
apply_alone(self, v, order) ==
    LET t == filter_type(v, self.cls)
    IN  IF t.failed THEN [result |-> None, errors |-> t.errors]
        ELSE LET s == IF self.cls = "FilterRepeater" THEN repeater_iter(self, t.value)
                      ELSE mapper_iter(self, t.value, order)
             IN  [result |-> result_type(self, t.value, s.yield),
                  errors |-> t.errors \o s.errors]

Orders(S) == {s \in [1..Cardinality(S) -> S] : Range(s) = S}

\* Every outcome apply(value) can have when no other call runs
Outcomes(self, v) ==
    {apply_alone(self, v, order) :
        order \in Orders(IF self.cls = "FilterMapper" /\ IsMapping(v)
                         THEN extra_keys(self, v[2]) ELSE {})}

\* ---- state ---------------------------------------------------------------
VARIABLES
    self,        \* the filter instance, as its constructor left it
    has_errors,  \* self._has_errors
    pc,          \* where each caller's apply() stands
    value,       \* the local `value` of _apply
    pos,         \* the loop position of iter
    extra,       \* the extra keys the second loop of FilterMapper.iter has left
    out,         \* what iter has yielded so far
    errors,      \* each caller's error context
    calls,       \* the _apply_item calls each caller's apply() has made
    input,       \* the value each caller passed to apply()
    result       \* what apply() returned

vars == <<self, has_errors, pc, value, pos, extra, out, errors, calls, input, result>>

Unset == <<"unset", "">>

\* ---- inputs and instances ------------------------------------------------
IntValues == {1, 2}
Scalars == {None} \cup {IntV(n) : n \in IntValues}
InputKeys == {Str("a"), Str("b"), None}

Lists(n) == {List(s) : s \in SeqsUpTo(Scalars, n)}
Mappings(n) ==
    UNION {UNION {{Dict([i \in 1..k |-> <<ks[i], vs[i]>>]) : vs \in [1..k -> Scalars]}
                  : ks \in {s \in [1..k -> InputKeys] : Distinct(s)}}
           : k \in 0..n}
\* What apply() is called with.  None is left out: BaseFilter.apply, not
\* _apply, decides what a filter does with it.
InputsUpTo(n) == (Scalars \ {None}) \cup Lists(n) \cup Mappings(n)
Inputs == InputsUpTo(MaxLen)
ConcInputs == InputsUpTo(ConcLen)

RestrictKeys == {Str("a"), IntV(0)}
RestrictArgs == {None} \cup {List(s) : s \in SeqsUpTo(RestrictKeys, 2)}
Repeaters(chains, restricts) ==
    {FilterRepeater(ch, r) : ch \in chains, r \in restricts}

SchemaKeys == {Str("a"), Str("b")}
FilterMaps(chains) ==
    UNION {UNION {{[i \in 1..k |-> <<ks[i], cs[i]>>] : cs \in [1..k -> chains]}
                  : ks \in {s \in [1..k -> SchemaKeys] : Distinct(s)}}
           : k \in 0..2}
MissingArgs == {Bool(TRUE), Bool(FALSE), None, List(<<>>), List(<<Str("a")>>)}
ExtraArgs == {Bool(TRUE), Bool(FALSE), None, List(<<>>), List(<<Str("b")>>)}
Mappers(maps, missing, extras) ==
    {FilterMapper(m, am, ae) : m \in maps, am \in missing, ae \in extras}

Instances ==
    Repeaters(Chains, RestrictArgs) \cup Mappers(FilterMaps(Chains), MissingArgs, ExtraArgs)

ConcInstances ==
    Repeaters({"id", "max1_inc"}, {None, List(<<Str("a")>>)})
    \cup Mappers({<<>>, <<<<Str("a"), "required">>>>}, {Bool(TRUE), Bool(FALSE)},
                 {Bool(TRUE), Bool(FALSE)})

\* ---- apply() -------------------------------------------------------------
Locals(c, v, st) ==
    /\ input' = [input EXCEPT ![c] = v]
    /\ value' = [value EXCEPT ![c] = v]
    /\ pos' = [pos EXCEPT ![c] = 1]
    /\ extra' = [extra EXCEPT ![c] = {}]
    /\ out' = [out EXCEPT ![c] = <<>>]
    /\ errors' = [errors EXCEPT ![c] = <<>>]
    /\ calls' = [calls EXCEPT ![c] = <<>>]
    /\ result' = [result EXCEPT ![c] = Unset]
    /\ pc' = [pc EXCEPT ![c] = st]

\* BaseFilter.apply(value): a fresh run of the filter on a value
Apply(c, v) ==
    /\ pc[c] = "idle"
    /\ Locals(c, v, "filter_type")
    /\ has_errors' = FALSE
    /\ UNCHANGED self

\* value = self._filter(value, Type(...))
TypeCheck(c) ==
    /\ pc[c] = "filter_type"
    /\ LET r == filter_type(value[c], self.cls)
       IN  /\ value' = [value EXCEPT ![c] = r.value]
           /\ errors' = [errors EXCEPT ![c] = @ \o r.errors]
           /\ has_errors' = (has_errors \/ r.failed)
    /\ pc' = [pc EXCEPT ![c] = "has_errors"]
    /\ UNCHANGED <<self, pos, extra, out, calls, input, result>>

\* Mutant: the test of _has_errors is left out.
apply_stops_Never(flag) == FALSE

\* if self._has_errors: return None
apply_stops(flag) == flag

CheckErrors(c) ==
    /\ pc[c] = "has_errors"
    /\ IF apply_stops(has_errors)
       THEN /\ result' = [result EXCEPT ![c] = None]
            /\ pc' = [pc EXCEPT ![c] = "done"]
       ELSE /\ pc' = [pc EXCEPT ![c] = "iter"]
            /\ UNCHANGED result
    /\ UNCHANGED <<self, has_errors, value, pos, extra, out, errors, calls, input>>

\* The effect of one loop body on the caller's state.
Take(c, s) ==
    /\ out' = [out EXCEPT ![c] = @ \o s.yield]
    /\ errors' = [errors EXCEPT ![c] = @ \o s.errors]
    /\ calls' = [calls EXCEPT ![c] = @ \o s.calls]
    /\ has_errors' = (has_errors \/ s.failed)

RepeaterIterMapping(c) ==
    /\ self.cls = "FilterRepeater"
    /\ pc[c] = "iter"
    /\ value[c] # None
    /\ IsMapping(value[c])
    /\ pos[c] <= Len(value[c][2])
    /\ LET item == value[c][2][pos[c]]
       IN  Take(c, repeater_mapping_item(self, item[1], item[2]))
    /\ pos' = [pos EXCEPT ![c] = @ + 1]
    /\ UNCHANGED <<self, pc, value, extra, input, result>>

RepeaterIterSequence(c) ==
    /\ self.cls = "FilterRepeater"
    /\ pc[c] = "iter"
    /\ value[c] # None
    /\ ~IsMapping(value[c])
    /\ pos[c] <= Len(value[c][2])
    /\ Take(c, repeater_sequence_item(self, pos[c] - 1, value[c][2][pos[c]]))
    /\ pos' = [pos EXCEPT ![c] = @ + 1]
    /\ UNCHANGED <<self, pc, value, extra, input, result>>

MapperIterFilters(c) ==
    /\ self.cls = "FilterMapper"
    /\ pc[c] = "iter"
    /\ value[c] # None
    /\ pos[c] <= Len(self.filters)
    /\ LET f == self.filters[pos[c]]
       IN  Take(c, mapper_filter_item(self, value[c][2], f[1], f[2]))
    /\ pos' = [pos EXCEPT ![c] = @ + 1]
    /\ UNCHANGED <<self, pc, value, extra, input, result>>

MapperExtraKeys(c) ==
    /\ self.cls = "FilterMapper"
    /\ pc[c] = "iter"
    /\ value[c] # None
    /\ pos[c] > Len(self.filters)
    /\ extra' = [extra EXCEPT ![c] = extra_keys(self, value[c][2])]
    /\ pc' = [pc EXCEPT ![c] = "iter_extra"]
    /\ UNCHANGED <<self, has_errors, value, pos, out, errors, calls, input, result>>

\* The iteration order of a set is not defined: any key left may come next.
MapperIterExtra(c) ==
    /\ pc[c] = "iter_extra"
    /\ \E key \in extra[c] :
          /\ Take(c, mapper_extra_item(self, value[c][2], key))
          /\ extra' = [extra EXCEPT ![c] = @ \ {key}]
    /\ UNCHANGED <<self, pc, value, pos, input, result>>

\* Mutant: the loops end at the first error recorded.
Exhausted_OnError(c) ==
    \/ pc[c] = "iter_extra" /\ extra[c] = {}
    \/ pc[c] = "iter" /\ value[c] = None
    \/ pc[c] = "iter" /\ self.cls = "FilterRepeater" /\ value[c] # None
                      /\ pos[c] > Len(value[c][2])
    \/ pc[c] \in {"iter", "iter_extra"} /\ errors[c] # <<>>

\* The generator is exhausted: result_type(...) is returned.
Exhausted(c) ==
    \/ pc[c] = "iter_extra" /\ extra[c] = {}
    \/ pc[c] = "iter" /\ value[c] = None
    \/ pc[c] = "iter" /\ self.cls = "FilterRepeater" /\ value[c] # None
                      /\ pos[c] > Len(value[c][2])

Finish(c) ==
    /\ Exhausted(c)
    /\ result' = [result EXCEPT ![c] = result_type(self, value[c], out[c])]
    /\ pc' = [pc EXCEPT ![c] = "done"]
    /\ UNCHANGED <<self, has_errors, value, pos, extra, out, errors, calls, input>>

\* The caller takes the result and the errors; the instance is used again.
Return(c) ==
    /\ pc[c] = "done"
    /\ Locals(c, Unset, "idle")
    /\ UNCHANGED <<self, has_errors>>

InitLocals ==
    /\ has_errors = FALSE
    /\ pc = [c \in Callers |-> "idle"]
    /\ value = [c \in Callers |-> Unset]
    /\ input = [c \in Callers |-> Unset]
    /\ pos = [c \in Callers |-> 1]
    /\ extra = [c \in Callers |-> {}]
    /\ out = [c \in Callers |-> <<>>]
    /\ errors = [c \in Callers |-> <<>>]
    /\ calls = [c \in Callers |-> <<>>]
    /\ result = [c \in Callers |-> Unset]

Init == self \in Instances /\ InitLocals

Next ==
    \/ \E v \in Inputs : Apply(1, v)
    \/ TypeCheck(1)
    \/ CheckErrors(1)
    \/ RepeaterIterMapping(1)
    \/ RepeaterIterSequence(1)
    \/ MapperIterFilters(1)
    \/ MapperExtraKeys(1)
    \/ MapperIterExtra(1)
    \/ Finish(1)
    \/ Return(1)

Spec == Init /\ [][Next]_vars

\* apply() is one synchronous call: once entered it runs to its return.
Progress ==
    \/ TypeCheck(1)
    \/ CheckErrors(1)
    \/ RepeaterIterMapping(1)
    \/ RepeaterIterSequence(1)
    \/ MapperIterFilters(1)
    \/ MapperExtraKeys(1)
    \/ MapperIterExtra(1)
    \/ Finish(1)

FairSpec == Spec /\ WF_vars(Progress)

\* Two callers share the instance; each has its own error context.
InitConc == self \in ConcInstances /\ InitLocals

NextConc ==
    \E c \in Callers :
        \/ \E v \in ConcInputs : Apply(c, v)
        \/ TypeCheck(c)
        \/ CheckErrors(c)
        \/ RepeaterIterMapping(c)
        \/ RepeaterIterSequence(c)
        \/ MapperIterFilters(c)
        \/ MapperExtraKeys(c)
        \/ MapperIterExtra(c)
        \/ Finish(c)
        \/ Return(c)

SpecConc == InitConc /\ [][NextConc]_vars

\* ---- what the claims speak about -----------------------------------------
Done(c) == pc[c] = "done"
Items(v) == v[2]
KeysOf(v) == Range(ItemKeys(v[2]))
Count(s, e) == Cardinality({i \in DOMAIN s : s[i] = e})
WithCode(s, code) == SelectSeq(s, LAMBDA e : e[1] = code)
CallsFor(c, k) == {i \in DOMAIN calls[c] : calls[c][i][1] = k}

\* A tri-state key policy permits a key: allow-all, or a set holding the key.
PolicyPermits(policy, k) ==
    \/ policy = Bool(TRUE)
    \/ policy[1] = "set" /\ k \in policy[2]

\* A restriction admits a key: no restriction, or the key is a member.
RestrictionAdmits(k) ==
    \/ self.restrict_keys[1] = "none"
    \/ self.restrict_keys[1] = "set" /\ k \in self.restrict_keys[2]

\* The path segment of a key: None is 'None', a text is itself, an index is
\* its decimal form.
KeyText(k) ==
    IF k[1] = "none" THEN Str("None")
    ELSE IF k[1] = "int" THEN Str(Digits[k[2] + 1])
    ELSE Str(k[2])

\* What a chain returns for a value: None when it fails.
ChainResult(chain, v) == IF ChainFails(chain, v) THEN None ELSE ChainValue(chain, v)

MapperOnMapping(c) == Done(c) /\ self.cls = "FilterMapper" /\ IsMapping(input[c])
RepeaterOnMapping(c) == Done(c) /\ self.cls = "FilterRepeater" /\ IsMapping(input[c])
RepeaterOnSequence(c) == Done(c) /\ self.cls = "FilterRepeater" /\ input[c][1] = "seq"
SchemaKeySet == Range(ItemKeys(self.filters))

\* C1: the keys of a FilterMapper's output are the schema keys in declared
\* order, each of them present whether or not the input has it, followed by
\* exactly the admitted extra keys; no extra key precedes a schema key.
C1_SchemaOrder ==
    \A c \in Callers : MapperOnMapping(c) =>
        LET keys == ItemKeys(Items(result[c]))
            n == Len(self.filters)
            rest == SubSeq(keys, n + 1, Len(keys))
        IN  /\ Len(keys) >= n
            /\ SubSeq(keys, 1, n) = ItemKeys(self.filters)
            /\ Distinct(rest)
            /\ Range(rest) = {k \in KeysOf(input[c]) \ SchemaKeySet :
                                PolicyPermits(self.allow_extra_keys, k)}

C1_Witness ==
    \E c \in Callers :
        /\ MapperOnMapping(c)
        /\ Len(self.filters) = 2
        /\ \E k \in SchemaKeySet : k \notin KeysOf(input[c])
        /\ Len(Items(result[c])) = 3
        /\ Len(errors[c]) = 2

\* C2: a schema key absent from the input has its chain applied to None and
\* its result stored, without a 'missing' error, when the missing-key policy
\* permits it; otherwise there is exactly one 'missing' error tagged with the
\* key, the chain is not applied, and the key maps to the placeholder.
C2_MissingKeys ==
    \A c \in Callers : MapperOnMapping(c) =>
        \A i \in DOMAIN self.filters :
            LET k == self.filters[i][1]
                chain == self.filters[i][2]
            IN  k \notin KeysOf(input[c]) =>
                    IF PolicyPermits(self.allow_missing_keys, k)
                    THEN /\ Cardinality(CallsFor(c, k)) = 1
                         /\ <<k, None>> \in Range(calls[c])
                         /\ HasKey(Items(result[c]), k)
                         /\ GetItem(Items(result[c]), k) = ChainResult(chain, None)
                         /\ Count(errors[c], <<"missing", k>>) = 0
                    ELSE /\ Count(errors[c], <<"missing", k>>) = 1
                         /\ CallsFor(c, k) = {}
                         /\ HasKey(Items(result[c]), k)
                         /\ GetItem(Items(result[c]), k) = None

C2_Witness ==
    \E c \in Callers :
        /\ MapperOnMapping(c)
        /\ self.allow_missing_keys = KeySet({Str("a")})
        /\ ItemKeys(self.filters) = <<Str("b"), Str("a")>>
        /\ self.filters[2][2] = "required"
        /\ KeysOf(input[c]) = {None}
        /\ errors[c] = <<<<"missing", Str("b")>>, <<"empty", Str("a")>>>>

\* C3: an input key that is no schema key is copied to the output with its
\* value unchanged, no chain applied and no error, when the extra-key policy
\* permits it; otherwise there is exactly one 'unexpected' error tagged with
\* the stringified key and the key is absent from the output.
C3_ExtraKeys ==
    \A c \in Callers : MapperOnMapping(c) =>
        /\ \A k \in KeysOf(input[c]) \ SchemaKeySet :
             IF PolicyPermits(self.allow_extra_keys, k)
             THEN /\ HasKey(Items(result[c]), k)
                  /\ GetItem(Items(result[c]), k) = GetItem(Items(input[c]), k)
                  /\ CallsFor(c, k) = {}
                  /\ \A e \in Range(errors[c]) : e[2] \notin {k, KeyText(k)}
             ELSE /\ Count(errors[c], <<"unexpected", KeyText(k)>>) = 1
                  /\ ~HasKey(Items(result[c]), k)
        /\ Len(WithCode(errors[c], "unexpected"))
             = Cardinality({k \in KeysOf(input[c]) \ SchemaKeySet :
                              ~PolicyPermits(self.allow_extra_keys, k)})

C3_Witness ==
    \E c \in Callers :
        /\ MapperOnMapping(c)
        /\ self.allow_extra_keys = KeySet({Str("b")})
        /\ self.filters = <<<<Str("a"), "max1_inc">>>>
        /\ input[c] = Dict(<<<<None, IntV(1)>>, <<Str("b"), IntV(2)>>>>)
        /\ result[c] = Dict(<<<<Str("a"), None>>, <<Str("b"), IntV(2)>>>>)
        /\ errors[c] = <<<<"unexpected", Str("None")>>>>

Admitted(items) == SelectSeq(items, LAMBDA it : RestrictionAdmits(it[1]))
Rejected(items) == SelectSeq(items, LAMBDA it : ~RestrictionAdmits(it[1]))
Indexed(elems) == [i \in DOMAIN elems |-> <<IntV(i - 1), elems[i]>>]

\* C4: on a mapping a FilterRepeater outputs exactly the admitted items, under
\* their own keys and in their input order, each value replaced by the
\* chain's result; each rejected key is absent and has one 'unexpected' error
\* tagged with its stringified key; an empty restriction set rejects all.
C4_RepeaterMapping ==
    \A c \in Callers : RepeaterOnMapping(c) =>
        LET items == Items(input[c])
            kept == Admitted(items)
            gone == Rejected(items)
        IN  /\ result[c] = Dict([i \in DOMAIN kept |->
                    <<kept[i][1], ChainResult(self.filter_chain, kept[i][2])>>])
            /\ WithCode(errors[c], "unexpected")
                 = [i \in DOMAIN gone |-> <<"unexpected", KeyText(gone[i][1])>>]
            /\ \A i \in DOMAIN gone : ~HasKey(Items(result[c]), gone[i][1])
            /\ self.restrict_keys = KeySet({}) =>
                 /\ result[c] = Dict(<<>>)
                 /\ Len(errors[c]) = Len(items)
                 /\ \A e \in Range(errors[c]) : e[1] = "unexpected"

C4_Witness ==
    \E c \in Callers :
        /\ RepeaterOnMapping(c)
        /\ self.restrict_keys = KeySet({Str("a")})
        /\ self.filter_chain = "max1_inc"
        /\ input[c] = Dict(<<<<None, IntV(1)>>, <<Str("a"), IntV(1)>>>>)
        /\ result[c] = Dict(<<<<Str("a"), IntV(2)>>>>)
        /\ errors[c] = <<<<"unexpected", Str("None")>>>>

\* C5: on a sequence a FilterRepeater outputs a sequence of the same length:
\* position i holds the chain's result for element i when index i is
\* admitted and the placeholder when it is not, with one 'unexpected' error
\* tagged with the stringified index for each rejected index.
C5_RepeaterSequence ==
    \A c \in Callers : RepeaterOnSequence(c) =>
        LET elems == Items(input[c])
            gone == Rejected(Indexed(elems))
        IN  /\ result[c] = List([i \in DOMAIN elems |->
                    IF RestrictionAdmits(IntV(i - 1))
                    THEN ChainResult(self.filter_chain, elems[i])
                    ELSE None])
            /\ WithCode(errors[c], "unexpected")
                 = [i \in DOMAIN gone |-> <<"unexpected", KeyText(gone[i][1])>>]
            /\ self.restrict_keys[1] = "none" /\ self.filter_chain = "id"
                 => result[c] = input[c]

C5_Witness ==
    \E c \in Callers :
        /\ RepeaterOnSequence(c)
        /\ self.restrict_keys = KeySet({IntV(0)})
        /\ self.filter_chain = "max1_inc"
        /\ input[c] = List(<<IntV(1), IntV(2)>>)
        /\ result[c] = List(<<IntV(2), None>>)
        /\ errors[c] = <<<<"unexpected", Str("1")>>>>

BadShape(c) ==
    \/ self.cls = "FilterMapper" /\ ~IsMapping(input[c])
    \/ self.cls = "FilterRepeater" /\ ~IsIterable(input[c])

\* C6: on an input of the wrong shape apply records one type-mismatch error
\* against the current path and returns None; no chain is applied to any
\* element and no 'missing' or 'unexpected' error is recorded.
C6_TypeMismatch ==
    \A c \in Callers : Done(c) /\ BadShape(c) =>
        /\ errors[c] = <<<<"wrong_type", Root>>>>
        /\ result[c] = None
        /\ calls[c] = <<>>
        /\ out[c] = <<>>

C6_Witness ==
    \E c \in Callers :
        /\ Done(c)
        /\ self.cls = "FilterMapper"
        /\ Len(self.filters) = 2
        /\ self.allow_missing_keys = Bool(FALSE)
        /\ input[c] = List(<<IntV(1)>>)
        /\ result[c] = None

IdentityChains ==
    IF self.cls = "FilterRepeater" THEN self.filter_chain = "id"
    ELSE \A i \in DOMAIN self.filters : self.filters[i][2] = "id"

\* The items of a mapping input the filter's policies permit.
PermittedItems(c) ==
    IF self.cls = "FilterRepeater" THEN Admitted(Items(input[c]))
    ELSE SelectSeq(Items(input[c]),
                   LAMBDA it : \/ it[1] \in SchemaKeySet
                               \/ PolicyPermits(self.allow_extra_keys, it[1]))

RejectedKeys(c) ==
    IF self.cls = "FilterMapper"
    THEN {k \in KeysOf(input[c]) \ SchemaKeySet : ~PolicyPermits(self.allow_extra_keys, k)}
    ELSE IF IsMapping(input[c])
    THEN {k \in KeysOf(input[c]) : ~RestrictionAdmits(k)}
    ELSE {IntV(i - 1) : i \in {j \in DOMAIN Items(input[c]) : ~RestrictionAdmits(IntV(j - 1))}}

AbsentKeys(c) ==
    IF self.cls = "FilterMapper" THEN SchemaKeySet \ KeysOf(input[c]) ELSE {}

DeniedAbsentKeys(c) ==
    {k \in AbsentKeys(c) : ~PolicyPermits(self.allow_missing_keys, k)}

\* C8 as written: with identity chains the output is a copy of the permitted
\* subset of the input and there are zero errors.
C8_Original ==
    \A c \in Callers : Done(c) /\ IdentityChains /\ ~BadShape(c) =>
        /\ errors[c] = <<>>
        /\ IF IsMapping(input[c])
           THEN Range(Items(result[c])) = Range(PermittedItems(c))
           ELSE LET kept == Admitted(Indexed(Items(input[c])))
                IN  Items(result[c]) = [i \in DOMAIN kept |-> kept[i][2]]

\* C8, amended: with identity chains the only errors are one 'unexpected' per
\* rejected key or index and one 'missing' per absent schema key the policy
\* does not permit; the output is a copy of the permitted subset of the
\* input, a sequence keeping None at each rejected index and a FilterMapper
\* adding (key, None) for each absent schema key.  With no key rejected and
\* no schema key absent the output equals the input and there are no errors.
C8_IdentityCopy ==
    \A c \in Callers : Done(c) /\ IdentityChains /\ ~BadShape(c) =>
        /\ \A e \in Range(errors[c]) : e[1] \in {"unexpected", "missing"}
        /\ Len(WithCode(errors[c], "unexpected")) = Cardinality(RejectedKeys(c))
        /\ Len(WithCode(errors[c], "missing")) = Cardinality(DeniedAbsentKeys(c))
        /\ IF IsMapping(input[c])
           THEN /\ Range(Items(result[c]))
                     = Range(PermittedItems(c)) \cup {<<k, None>> : k \in AbsentKeys(c)}
                /\ Len(Items(result[c]))
                     = Len(PermittedItems(c)) + Cardinality(AbsentKeys(c))
           ELSE result[c] = List([i \in DOMAIN Items(input[c]) |->
                    IF RestrictionAdmits(IntV(i - 1)) THEN Items(input[c])[i] ELSE None])
        /\ RejectedKeys(c) = {} /\ AbsentKeys(c) = {} =>
             /\ errors[c] = <<>>
             /\ IF IsMapping(input[c])
                THEN Range(Items(result[c])) = Range(Items(input[c]))
                ELSE result[c] = input[c]

C8_Witness ==
    \E c \in Callers :
        /\ Done(c)
        /\ self.cls = "FilterMapper"
        /\ self.filters = <<<<Str("b"), "id">>, <<Str("a"), "id">>>>
        /\ input[c] = Dict(<<<<Str("a"), IntV(1)>>, <<Str("b"), IntV(2)>>>>)
        /\ result[c] = Dict(<<<<Str("b"), IntV(2)>>, <<Str("a"), IntV(1)>>>>)
        /\ errors[c] = <<>>

\* C9: whatever the other caller does, a call ends with a result and errors
\* that the same call has when it runs alone.
C9_Isolation ==
    \A c \in Callers : Done(c) =>
        [result |-> result[c], errors |-> errors[c]] \in Outcomes(self, input[c])

\* C10: when the missing-key policy permits an absent schema key, the call
\* ends as a call on the same input with that key bound to None ends.
C10_OmittedIsNull ==
    \A c \in Callers : MapperOnMapping(c) =>
        \A k \in AbsentKeys(c) :
            PolicyPermits(self.allow_missing_keys, k) =>
                [result |-> result[c], errors |-> errors[c]]
                    \in Outcomes(self, Dict(Append(Items(input[c]), <<k, None>>)))

C10_Witness ==
    \E c \in Callers :
        /\ MapperOnMapping(c)
        /\ self.filters = <<<<Str("a"), "required">>, <<Str("b"), "max1_inc">>>>
        /\ self.allow_missing_keys = KeySet({Str("a")})
        /\ input[c] = Dict(<<<<Str("b"), IntV(1)>>>>)
        /\ result[c] = Dict(<<<<Str("a"), None>>, <<Str("b"), IntV(2)>>>>)
        /\ errors[c] = <<<<"empty", Str("a")>>>>

NoOffence == <<"", None>>
Offences(s) == SelectSeq(s, LAMBDA e : e # NoOffence)
ChainOffence(chain, v, tag) ==
    IF ChainFails(chain, v) THEN <<ChainCode(chain), tag>> ELSE NoOffence

\* The error an element of a FilterRepeater's input calls for, if any.
RepeaterOffence(it) ==
    IF ~RestrictionAdmits(it[1]) THEN <<"unexpected", KeyText(it[1])>>
    ELSE ChainOffence(self.filter_chain, it[2], KeyText(it[1]))

\* The error a schema key of a FilterMapper calls for, if any.
SchemaOffence(c, f) ==
    IF f[1] \in KeysOf(input[c])
    THEN ChainOffence(f[2], GetItem(Items(input[c]), f[1]), f[1])
    ELSE IF PolicyPermits(self.allow_missing_keys, f[1])
    THEN ChainOffence(f[2], None, f[1])
    ELSE <<"missing", f[1]>>

Traversed(c) ==
    IF self.cls = "FilterRepeater"
    THEN LET items == IF IsMapping(input[c]) THEN Items(input[c])
                      ELSE Indexed(Items(input[c]))
         IN  /\ pos[c] = Len(items) + 1
             /\ errors[c] = Offences([i \in DOMAIN items |-> RepeaterOffence(items[i])])
    ELSE LET first == Offences([i \in DOMAIN self.filters |->
                                    SchemaOffence(c, self.filters[i])])
             rest == SubSeq(errors[c], Len(first) + 1, Len(errors[c]))
         IN  /\ pos[c] = Len(self.filters) + 1
             /\ extra[c] = {}
             /\ Len(errors[c]) = Len(first) + Cardinality(RejectedKeys(c))
             /\ SubSeq(errors[c], 1, Len(first)) = first
             /\ Range(rest) = {<<"unexpected", KeyText(k)>> : k \in RejectedKeys(c)}

Iterating(c) == pc[c] \in {"iter", "iter_extra"}

\* C7: an error at one element does not end the traversal: once an element
\* has been rejected or has failed its chain, apply still reaches its return,
\* and on a well-shaped input it returns a container, having gone through
\* every element, with one error for every offending element.
C7_TraversalCompletes ==
    /\ [](\A c \in Callers : Done(c) /\ ~BadShape(c) =>
              IsIterable(result[c]) /\ Traversed(c))
    /\ \A c \in Callers : (Iterating(c) /\ errors[c] # <<>>) ~> Done(c)

C7_Witness ==
    \E c \in Callers :
        /\ RepeaterOnMapping(c)
        /\ self.filter_chain = "max1_inc"
        /\ self.restrict_keys = KeySet({Str("a"), IntV(0)})
        /\ input[c] = Dict(<<<<None, IntV(1)>>, <<Str("a"), IntV(2)>>>>)
        /\ result[c] = Dict(<<<<Str("a"), None>>>>)
        /\ errors[c] = <<<<"unexpected", Str("None")>>, <<"too_big", Str("a")>>>>

====
